---- MODULE Spec2Model ----
(***************************************************************************)
(* TripSpark Log microservice (src/main.py, src/models/log.py, src/db.py). *)
(*                                                                         *)
(* POST /logs validates a body against LogCreate, schedules store_log_db   *)
(* as a background task and answers 202.  store_log_db opens a transaction *)
(* (engine.begin), executes one INSERT and commits when the block is left. *)
(* GET /logs and GET /logs/{id} read the committed rows of table logs.     *)
(*                                                                         *)
(* Conventions of the model                                                *)
(*   - an Optional value is a sequence of length 0 (None) or 1;            *)
(*   - a rating is a float, kept in hundredths (3.5 is 350);               *)
(*   - a string that the code parses or formats (a UUID) is a sequence of  *)
(*     one-character strings; a UUID has four hex digits here (32 in the   *)
(*     program), written hh-hh;                                            *)
(*   - time is a counter; a step that reads the clock finds it where the   *)
(*     last reader left it or one tick later, so two statements may read   *)
(*     the same CURRENT_TIMESTAMP;                                         *)
(*   - a handler answers in one step and its response is sent (Send)       *)
(*     before the next step; a read changes nothing but resp, so this      *)
(*     excludes no behaviour of the table or of the tasks;                 *)
(*   - the service has no error channel of its own: reported is the set    *)
(*     of failures it wrote to one, raised the set of exceptions that      *)
(*     left store_log_db unhandled.                                        *)
(***************************************************************************)
EXTENDS Integers, Sequences, FiniteSets, TLC

VARIABLES
    logs,      \* committed rows of table logs, in commit order
    nextId,    \* AUTO_INCREMENT counter of logs.id
    now,       \* the database clock
    tasks,     \* background tasks added by create_log, in submission order
    requests,  \* number of POST /logs answered 202
    raised,    \* tasks whose exception left store_log_db unhandled
    reported,  \* tasks whose failure the service wrote to an error channel
    resp       \* the last HTTP response

vars == <<logs, nextId, now, tasks, requests, raised, reported, resp>>

\* ---------------------------------------------------------------- bounds
MaxReq == 2      \* accepted POST /logs requests
MaxClock == 1    \* ticks of the database clock

\* ------------------------------------------------------- program constants
RatingGe == 100      \* Field(ge=1), in hundredths
RatingLe == 500      \* Field(le=5), in hundredths
DefaultOffset == 0   \* Query(0, ge=0)
OffsetGe == 0
DefaultLimit == 10   \* Query(10, ge=1, le=100)
LimitGe == 1
LimitLe == 100

\* ---------------------------------------------------------------- values
None == <<>>
Some(x) == <<x>>
IsSome(o) == Len(o) = 1
Get(o) == o[1]

Min(a, b) == IF a <= b THEN a ELSE b

HexLower == <<"0","1","2","3","4","5","6","7","8","9","a","b","c","d","e","f">>
HexUpper == <<"0","1","2","3","4","5","6","7","8","9","A","B","C","D","E","F">>
UuidDigits == 1..4

IsHex(c) == \E v \in 1..16 : HexLower[v] = c \/ HexUpper[v] = c
HexVal(c) == (CHOOSE v \in 1..16 : HexLower[v] = c \/ HexUpper[v] = c) - 1

\* uuid.UUID(hex): hyphens are dropped, the digits are read case-insensitively,
\* anything but the right number of hex digits is an error (None here).
UUIDParse(s) ==
    LET h == SelectSeq(s, LAMBDA c : c # "-")
    IN  IF DOMAIN h = UuidDigits /\ \A i \in DOMAIN h : IsHex(h[i])
        THEN Some([i \in UuidDigits |-> HexVal(h[i])])
        ELSE None

\* str(uuid): lower-case hex, hyphenated.
UUIDStr(u) ==
    <<HexLower[u[1] + 1], HexLower[u[2] + 1], "-", HexLower[u[3] + 1], HexLower[u[4] + 1]>>

\* ------------------------------------------------------------ models/log.py
RequiredFields == {"user_id", "user_name", "place_name", "action"}

\* Faulty variant: gt/lt in place of ge/le.
RatingOkExclusive(r) == RatingGe < r /\ r < RatingLe

RatingOk(r) == RatingGe <= r /\ r <= RatingLe

\* The fields of a body (or of a row) that LogBase rejects.
LogBaseErrors(body) ==
    {f \in RequiredFields : body[f] = None}
    \cup {f \in {"user_id"} : IsSome(body.user_id) /\ UUIDParse(Get(body.user_id)) = None}
    \cup {f \in {"rating"} : IsSome(body.rating) /\ ~RatingOk(Get(body.rating))}

\* The validated model of a body that LogBase accepts.
LogCreate(body) ==
    [user_id    |-> Get(UUIDParse(Get(body.user_id))),
     user_name  |-> Get(body.user_name),
     place_name |-> Get(body.place_name),
     rating     |-> body.rating,
     feedback   |-> body.feedback,
     action     |-> Get(body.action)]

\* LogRead(**row): the row's columns, user_id parsed back into a UUID.
LogRead(row) ==
    [id         |-> row.id,
     user_id    |-> Get(UUIDParse(row.user_id)),
     user_name  |-> row.user_name,
     place_name |-> row.place_name,
     rating     |-> row.rating,
     feedback   |-> row.feedback,
     action     |-> row.action,
     created_at |-> row.created_at]

\* ------------------------------------------------------------ request bodies
Body(u, n, p, r, f, a) ==
    [user_id |-> u, user_name |-> n, place_name |-> p, rating |-> r, feedback |-> f,
     action |-> a]

Jane == <<"1", "A", "-", "B", "2">>
Bob == <<"c", "3", "4", "d">>

ValidBodies ==
    {Body(Some(Jane), Some("Jane Doe"), Some("Tokyo"), Some(500), Some("Amazing!"),
          Some("visited_place")),
     Body(Some(Bob), Some("Bob"), Some("Paris"), Some(100), None, Some("rated_place"))}

InvalidBodies ==
    {Body(None, Some("Jane Doe"), Some("Tokyo"), Some(500), None, Some("visited_place")),
     Body(Some(Jane), Some("Jane Doe"), Some("Tokyo"), Some(500), None, None),
     Body(Some(<<"z", "z", "-", "z", "z">>), Some("Jane Doe"), Some("Tokyo"), None, None,
          Some("visited_place")),
     Body(Some(Jane), Some("Jane Doe"), Some("Tokyo"), Some(0), None, Some("visited_place")),
     Body(Some(Jane), Some("Jane Doe"), Some("Tokyo"), Some(501), None,
          Some("visited_place")),
     Body(Some(Jane), Some("Jane Doe"), Some("Tokyo"), Some(600), None,
          Some("visited_place"))}

Bodies == ValidBodies \cup InvalidBodies

\* ---------------------------------------------------------------- responses
\* What a handler did: the request it served, the status and the records of its
\* answer, and the parameters of the query it ran (None when it ran none).
Response(op, request, status, body, query) ==
    [op |-> op, request |-> request, status |-> status, body |-> body, query |-> query]

\* The clock as the next reader may find it.
Clock == {t \in {now, now + 1} : t <= MaxClock}

NoResponse == Response("none", <<>>, 0, <<>>, None)

\* No response is waiting to be sent: the server is free to take its next step.
Idle == resp.op = "none"

\* ------------------------------------------------------------------- table
\* Faulty variant: The next id computed from the committed rows instead of a counter.
InsertRowMaxPlusOne(params, t) ==
    [id         |-> Len(logs) + 1,
     user_id    |-> params.user_id,
     user_name  |-> params.user_name,
     place_name |-> params.place_name,
     rating     |-> params.rating,
     feedback   |-> params.feedback,
     action     |-> params.action,
     created_at |-> t]

\* INSERT INTO logs: a column the statement names takes the parameter's value,
\* id takes the AUTO_INCREMENT counter and created_at CURRENT_TIMESTAMP.
InsertRow(params, t) ==
    [id         |-> nextId,
     user_id    |-> params.user_id,
     user_name  |-> params.user_name,
     place_name |-> params.place_name,
     rating     |-> params.rating,
     feedback   |-> params.feedback,
     action     |-> params.action,
     created_at |-> IF "created_at" \in DOMAIN params THEN params.created_at ELSE t]

\* ------------------------------------------------------------- store_log_db
\* Faulty variant: place_name bound to the user's name.
StoreLogParamsSwapped(log) ==
    [user_id    |-> UUIDStr(log.user_id),
     user_name  |-> log.user_name,
     place_name |-> log.user_name,
     rating     |-> log.rating,
     feedback   |-> log.feedback,
     action     |-> log.action]

\* Faulty variant: created_at bound by the service to a timestamp taken once, at start-up.
StoreLogParamsStale(log) ==
    [user_id    |-> UUIDStr(log.user_id),
     user_name  |-> log.user_name,
     place_name |-> log.place_name,
     rating     |-> log.rating,
     feedback   |-> log.feedback,
     action     |-> log.action,
     created_at |-> 0]

StoreLogParams(log) ==
    [user_id    |-> UUIDStr(log.user_id),
     user_name  |-> log.user_name,
     place_name |-> log.place_name,
     rating     |-> log.rating,
     feedback   |-> log.feedback,
     action     |-> log.action]

\* engine.begin() and conn.execute(stmt, params): the INSERT runs inside an open
\* transaction; the row is not visible to other connections yet.
StoreLogExecute(i) ==
    /\ Idle
    /\ tasks[i].state = "scheduled"
    /\ \E t \in Clock :
          /\ now' = t
          /\ tasks' = [tasks EXCEPT
                          ![i].state = "inserted",
                          ![i].row = Some(InsertRow(StoreLogParams(tasks[i].log), t)),
                          ![i].ran_at = Some(t),
                          ![i].inserts = @ + 1]
    /\ nextId' = nextId + 1
    /\ UNCHANGED <<logs, requests, raised, reported, resp>>

\* Faulty variant: The statement overwrites the latest row instead of adding one.
StoreLogCommitOverwrite(i) ==
    /\ Idle
    /\ tasks[i].state = "inserted"
    /\ tasks' = [tasks EXCEPT ![i].state = "committed"]
    /\ logs' = IF logs = <<>> THEN <<Get(tasks[i].row)>>
                ELSE [logs EXCEPT ![Len(logs)] = Get(tasks[i].row)]
    /\ UNCHANGED <<nextId, now, requests, raised, reported, resp>>

\* Leaving the with-block commits: the row becomes visible.
StoreLogCommit(i) ==
    /\ Idle
    /\ tasks[i].state = "inserted"
    /\ tasks' = [tasks EXCEPT ![i].state = "committed"]
    /\ logs' = Append(logs, Get(tasks[i].row))
    /\ UNCHANGED <<nextId, now, requests, raised, reported, resp>>

\* engine.begin() cannot connect: the exception leaves store_log_db, which has
\* no handler; nothing was inserted.
StoreLogConnectFail(i) ==
    /\ Idle
    /\ tasks[i].state = "scheduled"
    /\ tasks' = [tasks EXCEPT ![i].state = "failed"]
    /\ raised' = raised \cup {i}
    /\ UNCHANGED <<logs, nextId, now, requests, reported, resp>>

\* The statement or the commit fails after an id was drawn: the transaction is
\* rolled back and the exception leaves store_log_db.
StoreLogRollback(i) ==
    /\ Idle
    /\ tasks[i].state = "inserted"
    /\ tasks' = [tasks EXCEPT ![i].state = "failed", ![i].row = None]
    /\ raised' = raised \cup {i}
    /\ UNCHANGED <<logs, nextId, now, requests, reported, resp>>

\* --------------------------------------------------------------- POST /logs
\* Faulty variant: add_task called twice for one request.
AddTaskTwice(log) == <<log, log>>

\* background_tasks.add_task(store_log_db, log)
AddTask(log) == <<log>>

NewTask(log, t) ==
    [req |-> requests + 1, log |-> log, submitted_at |-> t, state |-> "scheduled",
     row |-> None, ran_at |-> None, inserts |-> 0]

CreateLog(body) ==
    /\ Idle
    /\ requests < MaxReq
    /\ IF LogBaseErrors(body) # {}
       THEN /\ resp' = Response("create", body, 422, <<>>, None)
            /\ UNCHANGED <<tasks, requests, now>>
       ELSE LET added == AddTask(LogCreate(body))
            IN  /\ \E t \in Clock :
                      /\ now' = t
                      /\ tasks' = tasks \o [k \in DOMAIN added |-> NewTask(added[k], t)]
                /\ requests' = requests + 1
                /\ resp' = Response("create", body, 202, <<>>, None)
    /\ UNCHANGED <<logs, nextId, raised, reported>>

\* ---------------------------------------------------------------- GET /logs
\* Faulty variant: limit without its le=100 and ge=1 constraints.
ListQueryErrorsNoLimit(user_id, offset, limit) ==
    {f \in {"user_id"} : IsSome(user_id) /\ UUIDParse(Get(user_id)) = None}
    \cup {f \in {"offset"} : IsSome(offset) /\ ~(Get(offset) >= OffsetGe)}

\* The constraints of the Query(...) parameters; a filter or bound that is
\* absent (None) takes its default.
ListQueryErrors(user_id, offset, limit) ==
    {f \in {"user_id"} : IsSome(user_id) /\ UUIDParse(Get(user_id)) = None}
    \cup {f \in {"offset"} : IsSome(offset) /\ ~(Get(offset) >= OffsetGe)}
    \cup {f \in {"limit"} : IsSome(limit) /\ ~(LimitGe <= Get(limit) /\ Get(limit) <= LimitLe)}

\* params of the SELECT: user_id is str(UUID), limit and offset are always bound.
ListParams(user_id, place_name, offset, limit) ==
    [user_id    |-> IF IsSome(user_id) THEN Some(UUIDStr(Get(UUIDParse(Get(user_id)))))
                    ELSE None,
     place_name |-> place_name,
     limit      |-> IF IsSome(limit) THEN Get(limit) ELSE DefaultLimit,
     offset     |-> IF IsSome(offset) THEN Get(offset) ELSE DefaultOffset]

\* WHERE 1=1 [AND user_id = :user_id] [AND place_name = :place_name]
Where(params) ==
    {r \in {logs[i] : i \in DOMAIN logs} :
        /\ IsSome(params.user_id) => r.user_id = Get(params.user_id)
        /\ IsSome(params.place_name) => r.place_name = Get(params.place_name)}

\* ORDER BY created_at DESC: every order of the rows with created_at not
\* increasing; rows of equal created_at come in an order the database picks.
OrderByCreatedAtDesc(rows) ==
    {s \in [1..Cardinality(rows) -> rows] :
        /\ \A i, j \in DOMAIN s : i # j => s[i] # s[j]
        /\ \A i, j \in DOMAIN s : i < j => s[i].created_at >= s[j].created_at}

\* Faulty variant: LIMIT :offset OFFSET :limit.
LimitOffsetSwapped(s, limit, offset) == SubSeq(s, limit + 1, Min(Len(s), limit + offset))

\* LIMIT :limit OFFSET :offset
LimitOffset(s, limit, offset) == SubSeq(s, offset + 1, Min(Len(s), offset + limit))

\* The responses list_logs may give.
ListLogsResponses(user_id, place_name, offset, limit) ==
    LET request == <<user_id, place_name, offset, limit>>
    IN  IF ListQueryErrors(user_id, offset, limit) # {}
        THEN {Response("list", request, 422, <<>>, None)}
        ELSE LET params == ListParams(user_id, place_name, offset, limit)
             IN  {LET rows == LimitOffset(s, params.limit, params.offset)
                  IN  Response("list", request, 200,
                               [k \in DOMAIN rows |-> LogRead(rows[k])], Some(params)) :
                  s \in OrderByCreatedAtDesc(Where(params))}

ListLogs(user_id, place_name, offset, limit) ==
    /\ Idle
    /\ resp' \in ListLogsResponses(user_id, place_name, offset, limit)
    /\ UNCHANGED <<logs, nextId, now, tasks, requests, raised, reported>>

\* <<user_id, place_name>> of a request; the user is Jane, spelt without hyphen
Filters ==
    {<<None, None>>, <<Some(<<"1", "a", "b", "2">>), None>>, <<None, Some("Paris")>>,
     <<Some(<<"1", "a", "b", "2">>), Some("Tokyo")>>,
     <<Some(<<"1", "a", "b", "2">>), Some("Paris")>>}

\* <<offset, limit>> of a request
ValidPages == {<<None, None>>, <<Some(1), Some(1)>>, <<Some(0), Some(2)>>, <<Some(2), Some(100)>>}
InvalidPages == {<<Some(-1), None>>, <<None, Some(0)>>, <<None, Some(101)>>, <<Some(1), Some(101)>>}

\* <<user_id, place_name, offset, limit>>: every page of the whole table, every
\* filter with the default page, two filtered pages, and the requests the
\* Query(...) constraints reject.
ListRequests ==
    {<<None, None, page[1], page[2]>> : page \in ValidPages \cup InvalidPages}
    \cup {<<f[1], f[2], None, None>> : f \in Filters}
    \cup {<<Some(<<"1", "a", "b", "2">>), None, Some(1), Some(1)>>,
           <<Some(<<"1", "a", "b", "2">>), Some("Tokyo"), Some(0), Some(2)>>,
           <<Some(<<"z", "z">>), None, None, None>>}

\* ----------------------------------------------------------- GET /logs/{id}
\* Faulty variant: The SELECT of get_log without its WHERE clause.
GetLogResponseNoWhere(log_id) ==
    IF logs = <<>>
    THEN Response("get", log_id, 404, <<>>, Some([id |-> log_id]))
    ELSE Response("get", log_id, 200, <<LogRead(Head(logs))>>, Some([id |-> log_id]))

GetLogResponse(log_id) ==
    LET rows == SelectSeq(logs, LAMBDA r : r.id = log_id)
    IN  IF rows = <<>>
        THEN Response("get", log_id, 404, <<>>, Some([id |-> log_id]))
        ELSE Response("get", log_id, 200, <<LogRead(Head(rows))>>, Some([id |-> log_id]))

GetLog(log_id) ==
    /\ Idle
    /\ resp' = GetLogResponse(log_id)
    /\ UNCHANGED <<logs, nextId, now, tasks, requests, raised, reported>>

LogIds == 0..(MaxReq + 1)

\* The response is sent to the client; background tasks run after it.
Send ==
    /\ ~Idle
    /\ resp' = NoResponse
    /\ UNCHANGED <<logs, nextId, now, tasks, requests, raised, reported>>

\* -------------------------------------------------------------------- spec
Init ==
    /\ logs = <<>>
    /\ nextId = 1
    /\ now = 0
    /\ tasks = <<>>
    /\ requests = 0
    /\ raised = {}
    /\ reported = {}
    /\ resp = NoResponse

Next ==
    \/ \E body \in Bodies : CreateLog(body)
    \/ \E i \in DOMAIN tasks : StoreLogExecute(i)
    \/ \E i \in DOMAIN tasks : StoreLogCommit(i)
    \/ \E i \in DOMAIN tasks : StoreLogConnectFail(i)
    \/ \E i \in DOMAIN tasks : StoreLogRollback(i)
    \/ \E q \in ListRequests : ListLogs(q[1], q[2], q[3], q[4])
    \/ \E log_id \in LogIds : GetLog(log_id)
    \/ Send

Spec == Init /\ [][Next]_vars

\* ------------------------------------------------------- terms of the claims
Rows == {logs[k] : k \in DOMAIN logs}
CommittedTasks == {i \in DOMAIN tasks : tasks[i].state = "committed"}
FailedTasks == {i \in DOMAIN tasks : tasks[i].state = "failed"}
CommittedIds == {Get(tasks[i].row).id : i \in CommittedTasks}
IssuedIds == 1..(nextId - 1)

\* A step in which the handler `op` answered.
Answers(op) == Idle /\ resp'.op = op

\* C1: an accepted POST /logs adds exactly one task, still scheduled, and
\* commits nothing itself; a task executes its INSERT at most once (exactly
\* once when it committed); no request has more than one committed task, every
\* committed row belongs to a committed task and there are never more
\* committed rows than accepted requests.
C1_Step ==
    /\ (Answers("create") /\ resp'.status = 202) =>
          /\ Len(tasks') = Len(tasks) + 1
          /\ requests' = requests + 1
          /\ tasks'[Len(tasks')].state = "scheduled"
          /\ tasks'[Len(tasks')].inserts = 0
          /\ logs' = logs
    /\ \A i \in DOMAIN tasks' :
          /\ tasks'[i].inserts <= 1
          /\ tasks'[i].state = "committed" => tasks'[i].inserts = 1
    /\ \A r \in 1..requests' :
          Cardinality({i \in DOMAIN tasks' :
                          tasks'[i].req = r /\ tasks'[i].state = "committed"}) <= 1
    /\ Len(logs') = Cardinality({i \in DOMAIN tasks' : tasks'[i].state = "committed"})
    /\ Len(logs') <= requests'

C1_OneTaskPerSubmit == [][C1_Step]_vars

\* C1 witness: two requests were accepted, one is committed, the other's task
\* has not run.
C1_Witness ==
    /\ requests = 2
    /\ Len(logs) = 1
    /\ \E i \in DOMAIN tasks : tasks[i].state = "scheduled"

\* C2: GET /logs/{id} of the id a committed task was given answers 200 with a
\* record equal to the submitted one in user_id, user_name, place_name, rating,
\* feedback and action, carrying that id and a created_at.
C2_RoundTrip ==
    resp.op = "get" =>
        \A i \in CommittedTasks :
            Get(tasks[i].row).id = resp.request =>
                /\ resp.status = 200
                /\ Len(resp.body) = 1
                /\ resp.body[1].user_id = tasks[i].log.user_id
                /\ resp.body[1].user_name = tasks[i].log.user_name
                /\ resp.body[1].place_name = tasks[i].log.place_name
                /\ resp.body[1].rating = tasks[i].log.rating
                /\ resp.body[1].feedback = tasks[i].log.feedback
                /\ resp.body[1].action = tasks[i].log.action
                /\ resp.body[1].id = resp.request
                /\ resp.body[1].id \in Nat \ {0}
                /\ resp.body[1].created_at \in Nat

\* C2 witness: the record submitted second, with the user id spelt 1A-B2, was
\* committed and read back with the UUID <<1, 10, 11, 2>>.
C2_Witness ==
    /\ resp.op = "get"
    /\ resp.status = 200
    /\ resp.body[1].user_id = <<1, 10, 11, 2>>
    /\ resp.body[1].feedback = Some("Amazing!")
    /\ resp.body[1].id = 2

\* C3: what the claim calls a valid record: the required fields are present
\* (and the user id is a UUID) and the rating is absent or within [1, 5].
C3_Valid(body) ==
    /\ body.user_id # None /\ body.user_name # None /\ body.place_name # None
    /\ body.action # None
    /\ UUIDParse(Get(body.user_id)) # None
    /\ body.rating = None \/ Get(body.rating) \in 100..500

\* Jane's first body with another rating.
C3_Rated(r) ==
    Body(Some(Jane), Some("Jane Doe"), Some("Tokyo"), r, None, Some("visited_place"))

\* C3: POST /logs of an invalid body answers 422, adds no task and changes
\* neither the table nor the id counter; a valid body is answered 202 and
\* scheduled.  LogBase accepts the ratings absent, 1, 3.5 and 5 and rejects 0,
\* 0.99, 5.01 and 6.
C3_Step ==
    Answers("create") =>
        /\ IF C3_Valid(resp'.request)
           THEN /\ resp'.status = 202
                /\ Len(tasks') = Len(tasks) + 1
                /\ tasks'[Len(tasks')].log = LogCreate(resp'.request)
           ELSE /\ resp'.status = 422
                /\ resp'.query = None
                /\ UNCHANGED <<tasks, logs, nextId, requests>>
        /\ \A r \in {None, Some(100), Some(350), Some(500)} :
              LogBaseErrors(C3_Rated(r)) = {}
        /\ \A r \in {Some(0), Some(99), Some(501), Some(600)} :
              LogBaseErrors(C3_Rated(r)) = {"rating"}

C3_Validation == [][C3_Step]_vars

\* C3 witness: a body with rating 5.01 was refused after one with rating 1 was
\* accepted.
C3_Witness ==
    /\ resp.op = "create"
    /\ resp.status = 422
    /\ resp.request.rating = Some(501)
    /\ \E i \in DOMAIN tasks : tasks[i].log.rating = Some(100)

\* C4: the rows a list request asks for, in the claim's terms: the user filter
\* compares UUIDs, the place filter compares names, an absent filter matches.
C4_Matching(request) ==
    {r \in Rows :
        /\ IsSome(request[1]) => UUIDParse(r.user_id) = UUIDParse(Get(request[1]))
        /\ IsSome(request[2]) => r.place_name = Get(request[2])}

C4_Offset(request) == IF IsSome(request[3]) THEN Get(request[3]) ELSE 0
C4_Limit(request) == IF IsSome(request[4]) THEN Get(request[4]) ELSE 10

\* Number of matching rows created later than r.
C4_Rank(r, matching) == Cardinality({q \in matching : q.created_at > r.created_at})

C4_DistinctCreatedAt(rows) ==
    \A a, b \in rows : a # b => a.created_at # b.created_at

\* The rows the query of a list request selects, before ordering and paging.
C4_Selected(user_id, place_name) == Where(ListParams(user_id, place_name, None, None))

C5_State ==
    /\ \A i, j \in DOMAIN tasks :
          (i # j /\ IsSome(tasks[i].row) /\ IsSome(tasks[j].row)) =>
              Get(tasks[i].row).id # Get(tasks[j].row).id
    /\ \A i \in DOMAIN tasks : IsSome(tasks[i].row) => Get(tasks[i].row).id \in IssuedIds
    /\ \A k, l \in DOMAIN logs : k # l => logs[k].id # logs[l].id
    /\ Cardinality({r.id : r \in Rows}) = Cardinality(CommittedTasks)

\* C5: each INSERT draws an id greater than every id drawn before it.
C5_Step ==
    /\ C5_State'
    /\ \A i \in DOMAIN tasks :
          (tasks[i].state = "scheduled" /\ tasks'[i].state = "inserted") =>
              /\ Get(tasks'[i].row).id \notin IssuedIds
              /\ \A id \in IssuedIds : id < Get(tasks'[i].row).id

C5_UniqueIds == [][C5_Step]_vars

\* C5 witness: two transactions were open at once and both committed.
C5_Witness ==
    /\ Len(logs) = 2
    /\ logs[1].id # logs[2].id
    /\ logs[1].id > logs[2].id

\* C6: the claim: every failed persist is recorded on the error channel, is
\* not retried and leaves no committed row.
C6_FailureReported ==
    \A i \in FailedTasks :
        /\ i \in reported
        /\ tasks[i].inserts <= 1
        /\ tasks[i].row = None

\* C7: GET /logs/{id} answers 404 for an id that no committed row carries:
\* one never issued, or one issued to a transaction that is still open or was
\* rolled back; it answers 200 with the row of that id otherwise.
C7_GetById ==
    resp.op = "get" =>
        /\ resp.request \notin IssuedIds => resp.status = 404
        /\ resp.request \notin CommittedIds => (resp.status = 404 /\ resp.body = <<>>)
        /\ resp.request \in CommittedIds =>
              /\ resp.status = 200
              /\ \E r \in Rows : r.id = resp.request /\ resp.body = <<LogRead(r)>>

\* C7 witness: the id asked for was issued to a task that then failed, while
\* another row is committed.
C7_Witness ==
    /\ resp.op = "get"
    /\ resp.status = 404
    /\ resp.request \in IssuedIds
    /\ FailedTasks # {}
    /\ logs # <<>>

\* The user filter of the request is absent or a UUID.
C8_FilterOk(user_id) == IsSome(user_id) => UUIDParse(Get(user_id)) # None

\* C8: GET /logs with a limit outside [1, 100] or a negative offset answers
\* 422 and runs no query; otherwise it runs the query with the limit and the
\* offset of the request, 10 and 0 when they are absent.
C8_ListBounds ==
    (resp.op = "list" /\ C8_FilterOk(resp.request[1])) =>
        LET offset == resp.request[3]
            limit == resp.request[4]
        IN  IF \/ IsSome(limit) /\ (Get(limit) < 1 \/ Get(limit) > 100)
               \/ IsSome(offset) /\ Get(offset) < 0
            THEN resp.status = 422 /\ resp.query = None /\ resp.body = <<>>
            ELSE /\ resp.status = 200
                 /\ IsSome(resp.query)
                 /\ Get(resp.query).limit = (IF IsSome(limit) THEN Get(limit) ELSE 10)
                 /\ Get(resp.query).offset = (IF IsSome(offset) THEN Get(offset) ELSE 0)
                 /\ Len(resp.body) <= Get(resp.query).limit

\* C8 witness: limit=101 was refused although rows are committed.
C8_Witness ==
    /\ resp.op = "list"
    /\ resp.status = 422
    /\ resp.request[4] = Some(101)
    /\ logs # <<>>

\* The task that inserted the row of this id, and the row's place in the
\* order of commits.
TaskOfId(id) == CHOOSE i \in DOMAIN tasks : IsSome(tasks[i].row) /\ Get(tasks[i].row).id = id
CommitPos(id) == CHOOSE k \in DOMAIN logs : logs[k].id = id

\* C9 as claimed: created_at is not earlier than the submission, and of two
\* listed records whose tasks completed (committed) in the opposite order to
\* their submission, the one that completed later is listed first.
C9_ListedByCompletion ==
    /\ \A i \in DOMAIN tasks :
          IsSome(tasks[i].row) => Get(tasks[i].row).created_at >= tasks[i].submitted_at
    /\ (resp.op = "list" /\ resp.status = 200) =>
          \A p, q \in DOMAIN resp.body :
              LET a == resp.body[p].id
                  b == resp.body[q].id
              IN  (p < q /\ ((TaskOfId(a) < TaskOfId(b)) # (CommitPos(a) < CommitPos(b)))) =>
                      CommitPos(a) > CommitPos(b)

\* C9 amended: created_at is the clock reading of the step in which the
\* task's INSERT ran, never earlier than the submission; every committed row
\* is the row its task inserted; a list response is ordered by created_at, so
\* two records with different created_at come in the order of their INSERTs
\* whatever the order of their submission.
C9_CreatedAtIsInsertTime ==
    /\ \A i \in DOMAIN tasks :
          IsSome(tasks[i].row) =>
              /\ Get(tasks[i].row).created_at = Get(tasks[i].ran_at)
              /\ Get(tasks[i].row).created_at >= tasks[i].submitted_at
    /\ \A r \in Rows : \E i \in CommittedTasks : Get(tasks[i].row) = r
    /\ (resp.op = "list" /\ resp.status = 200) =>
          \A p, q \in DOMAIN resp.body :
              p < q => /\ resp.body[p].created_at >= resp.body[q].created_at
                       /\ Get(tasks[TaskOfId(resp.body[p].id)].ran_at)
                             >= Get(tasks[TaskOfId(resp.body[q].id)].ran_at)

\* C9 witness: the record submitted first was inserted later than the one
\* submitted second, after its own submission time, and is listed first.
C9_Witness ==
    /\ resp.op = "list"
    /\ resp.status = 200
    /\ Len(resp.body) = 2
    /\ TaskOfId(resp.body[1].id) < TaskOfId(resp.body[2].id)
    /\ resp.body[1].created_at > resp.body[2].created_at
    /\ resp.body[1].created_at > tasks[TaskOfId(resp.body[1].id)].submitted_at

\* C10: a step never removes or changes a committed row, and a row it adds
\* carries an id no committed row has; a committed task stays as it is; list
\* and get change neither the table, the counter nor the tasks; every record a
\* response carries is a committed row, and the row of a task that is not
\* committed is in no response and not in the table.
C10_Step ==
    /\ \A k \in DOMAIN logs : k \in DOMAIN logs' /\ logs'[k] = logs[k]
    /\ \A k \in DOMAIN logs' : k \notin DOMAIN logs => logs'[k].id \notin {r.id : r \in Rows}
    /\ \A i \in CommittedTasks : tasks'[i] = tasks[i]
    /\ (Answers("list") \/ Answers("get")) => UNCHANGED <<logs, nextId, tasks, requests>>
    /\ \A j \in DOMAIN resp'.body :
          \E k \in DOMAIN logs' :
              /\ resp'.body[j] = LogRead(logs'[k])
              /\ \E i \in DOMAIN tasks' :
                    tasks'[i].state = "committed" /\ Get(tasks'[i].row) = logs'[k]
    /\ \A i \in DOMAIN tasks' :
          IF tasks'[i].state = "committed"
          THEN \E k \in DOMAIN logs' : logs'[k] = Get(tasks'[i].row)
          ELSE IsSome(tasks'[i].row) =>
                  /\ \A k \in DOMAIN logs' : logs'[k].id # Get(tasks'[i].row).id
                  /\ \A j \in DOMAIN resp'.body : resp'.body[j].id # Get(tasks'[i].row).id

C10_CommittedImmutable == [][C10_Step]_vars

\* C10 witness: the whole table was listed while one record was committed and
\* another was inserted in a transaction still open; only the first came back.
C10_Witness ==
    /\ resp.op = "list"
    /\ resp.status = 200
    /\ resp.request = <<None, None, None, None>>
    /\ Len(resp.body) = 1
    /\ \E i \in DOMAIN tasks : tasks[i].state = "inserted"

====
